---- MODULE Spec2Model ----
(***************************************************************************)
(* Ilitek ILI9806E MIPI-DSI panel driver                                   *)
(* (drivers/gpu/drm/panel/panel-ilitek-ili9806e.c).                        *)
(*                                                                         *)
(* Every driver callback is one action.  A callback leaves behind, in      *)
(* last.trace, the ordered list of the calls it made into the kernel       *)
(* (GPIO, regulator, msleep, DSI transport, printk), so that ordering      *)
(* properties of one call are state predicates.                            *)
(***************************************************************************)
EXTENDS Integers, Sequences, FiniteSets, TLC

VARIABLES
    panelState,   \* lifecycle position of the panel as the host sees it
    power,        \* enable count of the regulator ctx->power
    dsi_en,       \* holder of GPIO DSI_EN: "free", "driver" or "other"
    mode_flags,   \* dsi->mode_flags
    brightness,   \* bl->props.brightness
    echo,         \* brightness payload last accepted by the transport
    page,         \* register page selected on the panel
    last          \* the last callback: name, result, trace of its calls, and
                  \* the state and mode flags it was called in

vars == <<panelState, power, dsi_en, mode_flags, brightness, echo, page,
          last>>

----------------------------------------------------------------------------
(* Bounds of the exploration *)

MaxCmdsPerPage == 1   \* commands kept after each page switch in Table
MaxJitter == 1        \* msleep(n) sleeps n .. n + MaxJitter ms
MaxPower == 2         \* cap on the regulator enable count
MaxAttempts == 2      \* cap on the counter of consecutive failed enables

----------------------------------------------------------------------------
(* Program constants *)

DSI_EN == 11
MIPI_DCS_ENTER_SLEEP_MODE == 16
MIPI_DCS_SET_DISPLAY_OFF == 40
MIPI_DCS_SET_TEAR_ON == 53
MIPI_DCS_SET_DISPLAY_BRIGHTNESS == 81
MIPI_DCS_GET_DISPLAY_BRIGHTNESS == 82
MIPI_DSI_MODE_LPM == "MIPI_DSI_MODE_LPM"
MAX_BRIGHTNESS == 255
\* dsi->mode_flags as probe sets them
ProbeFlags == {"MIPI_DSI_MODE_VIDEO", "MIPI_DSI_MODE_VIDEO_SYNC_PULSE"}

\* errno values the external calls may return
TransportErrors == {-5, -110}
RegulatorErrors == {-22}
EBUSY == 0 - 16
ENODATA == 0 - 61

SWITCH_PAGE_INSTR(page_) == [op |-> "SWITCH_PAGE", page |-> page_]
COMMAND_INSTR(cmd_, data_) == [op |-> "COMMAND", cmd |-> cmd_, data |-> data_]

ili9806e_init ==
  <<
     SWITCH_PAGE_INSTR(1), COMMAND_INSTR(8, 16), COMMAND_INSTR(33, 1),
     COMMAND_INSTR(48, 2), COMMAND_INSTR(49, 2), COMMAND_INSTR(64, 22),
     COMMAND_INSTR(65, 51), COMMAND_INSTR(66, 2), COMMAND_INSTR(67, 9),
     COMMAND_INSTR(68, 9), COMMAND_INSTR(80, 120), COMMAND_INSTR(81, 120),
     COMMAND_INSTR(82, 0), COMMAND_INSTR(83, 94), COMMAND_INSTR(96, 7),
     COMMAND_INSTR(97, 0), COMMAND_INSTR(98, 8), COMMAND_INSTR(99, 0),
     SWITCH_PAGE_INSTR(1), COMMAND_INSTR(160, 0), COMMAND_INSTR(161, 27),
     COMMAND_INSTR(162, 36), COMMAND_INSTR(163, 17), COMMAND_INSTR(164, 7),
     COMMAND_INSTR(165, 12), COMMAND_INSTR(166, 8), COMMAND_INSTR(167, 5),
     COMMAND_INSTR(168, 6), COMMAND_INSTR(169, 11), COMMAND_INSTR(170, 14),
     COMMAND_INSTR(171, 7), COMMAND_INSTR(172, 14), COMMAND_INSTR(173, 18),
     COMMAND_INSTR(174, 12), COMMAND_INSTR(175, 0), COMMAND_INSTR(192, 0),
     COMMAND_INSTR(193, 28), COMMAND_INSTR(194, 36), COMMAND_INSTR(195, 17),
     COMMAND_INSTR(196, 7), COMMAND_INSTR(197, 12), COMMAND_INSTR(198, 8),
     COMMAND_INSTR(199, 6), COMMAND_INSTR(200, 7), COMMAND_INSTR(201, 10),
     COMMAND_INSTR(202, 14), COMMAND_INSTR(203, 7), COMMAND_INSTR(204, 13),
     COMMAND_INSTR(205, 17), COMMAND_INSTR(206, 12), COMMAND_INSTR(207, 0),
     SWITCH_PAGE_INSTR(6), COMMAND_INSTR(0, 32), COMMAND_INSTR(1, 4),
     COMMAND_INSTR(2, 0), COMMAND_INSTR(3, 0), COMMAND_INSTR(4, 22),
     COMMAND_INSTR(5, 22), COMMAND_INSTR(6, 136), COMMAND_INSTR(7, 2),
     COMMAND_INSTR(8, 1), COMMAND_INSTR(9, 0), COMMAND_INSTR(10, 0),
     COMMAND_INSTR(11, 0), COMMAND_INSTR(12, 22), COMMAND_INSTR(13, 22),
     COMMAND_INSTR(14, 0), COMMAND_INSTR(15, 0), COMMAND_INSTR(16, 80),
     COMMAND_INSTR(17, 82), COMMAND_INSTR(18, 0), COMMAND_INSTR(19, 0),
     COMMAND_INSTR(20, 0), COMMAND_INSTR(21, 67), COMMAND_INSTR(22, 11),
     COMMAND_INSTR(23, 0), COMMAND_INSTR(24, 0), COMMAND_INSTR(25, 0),
     COMMAND_INSTR(26, 0), COMMAND_INSTR(27, 0), COMMAND_INSTR(28, 0),
     COMMAND_INSTR(29, 0), COMMAND_INSTR(32, 1), COMMAND_INSTR(33, 35),
     COMMAND_INSTR(34, 69), COMMAND_INSTR(35, 103), COMMAND_INSTR(36, 1),
     COMMAND_INSTR(37, 35), COMMAND_INSTR(38, 69), COMMAND_INSTR(39, 103),
     COMMAND_INSTR(48, 19), COMMAND_INSTR(49, 17), COMMAND_INSTR(50, 0),
     COMMAND_INSTR(51, 34), COMMAND_INSTR(52, 34), COMMAND_INSTR(54, 34),
     COMMAND_INSTR(55, 170), COMMAND_INSTR(56, 187), COMMAND_INSTR(57, 102),
     COMMAND_INSTR(58, 34), COMMAND_INSTR(59, 34), COMMAND_INSTR(60, 34),
     COMMAND_INSTR(61, 34), COMMAND_INSTR(62, 34), COMMAND_INSTR(63, 34),
     COMMAND_INSTR(64, 34), SWITCH_PAGE_INSTR(7), COMMAND_INSTR(23, 34),
     COMMAND_INSTR(2, 119), SWITCH_PAGE_INSTR(0), COMMAND_INSTR(17, 0),
     COMMAND_INSTR(41, 0)
  >>

----------------------------------------------------------------------------
(* The table the lifecycle specifications run: every page switch of        *)
(* ili9806e_init with the first MaxCmdsPerPage commands that follow it.    *)
(* SpecSeq runs the whole of ili9806e_init.                                *)

RECURSIVE Excerpt(_, _, _)
Excerpt(tbl, i, kept) ==
    IF i > Len(tbl) THEN <<>>
    ELSE IF tbl[i].op = "SWITCH_PAGE"
         THEN <<tbl[i]>> \o Excerpt(tbl, i + 1, 0)
         ELSE IF kept < MaxCmdsPerPage
              THEN <<tbl[i]>> \o Excerpt(tbl, i + 1, kept + 1)
              ELSE Excerpt(tbl, i + 1, kept)

Table == Excerpt(ili9806e_init, 1, 0)

----------------------------------------------------------------------------
(* The DSI transport.  A pattern fixes the outcome of every transaction of *)
(* one callback: transactions before number `first` succeed, number        *)
(* `first` fails with `err`, and the later ones fail too when `rest`.      *)

NoFailure == [first |-> 0, rest |-> FALSE, err |-> 0]

Patterns(n) ==
    {NoFailure} \cup
    [first : 1..n, rest : BOOLEAN, err : TransportErrors]

\* the patterns in which at most one transaction fails
SinglePatterns(n) == {p \in Patterns(n) : ~p.rest}

Outcome(p, n) ==
    IF p.first = 0 \/ n < p.first THEN 0
    ELSE IF n = p.first \/ p.rest THEN p.err
    ELSE 0

\* mipi_dsi_dcs_write_buffer: the number of bytes sent, or a negative errno.
\* n is the number of the transaction within the callback.
mipi_dsi_dcs_write_buffer(buf, p, n, flags) ==
    [ev |-> "dsi_write", buf |-> buf,
     ret |-> IF Outcome(p, n) < 0 THEN Outcome(p, n) ELSE Len(buf),
     lpm |-> MIPI_DSI_MODE_LPM \in flags]

\* mipi_dsi_dcs_read of `len` bytes: the number of bytes read, or a negative
\* errno; `data` is what the panel answers.
mipi_dsi_dcs_read(cmd, data, p, n, flags) ==
    [ev |-> "dsi_read", cmd |-> cmd,
     ret |-> IF Outcome(p, n) < 0 THEN Outcome(p, n) ELSE Len(data),
     data |-> IF Outcome(p, n) < 0 THEN <<>> ELSE data,
     lpm |-> MIPI_DSI_MODE_LPM \in flags]

\* printk of a failure: the line of ili9806e_init_sequence that names the
\* failing table index, and the lines that name only the error.
printk_seq(i, ret) == [ev |-> "printk", where |-> "seq", seq |-> i, ret |-> ret]
printk_err(where, ret) == [ev |-> "printk", where |-> where, ret |-> ret]

\* the transport writes of a trace, in order
Writes(trace) == SelectSeq(trace, LAMBDA e : e.ev = "dsi_write")
Range(seq) == {seq[i] : i \in 1..Len(seq)}

----------------------------------------------------------------------------
(* Page switch, register write and the initialisation sequence *)

ili9806e_switch_page(page_, p, n, flags) ==
    LET w == mipi_dsi_dcs_write_buffer(<<255, 255, 152, 6, 4, page_>>, p, n, flags)
    IN  [ret |-> IF w.ret < 0 THEN w.ret ELSE 0, trace |-> <<w>>]

ili9806e_send_cmd_data(cmd, data, p, n, flags) ==
    LET w == mipi_dsi_dcs_write_buffer(<<cmd, data>>, p, n, flags)
    IN  [ret |-> IF w.ret < 0 THEN w.ret ELSE 0, trace |-> <<w>>]

\* init_step with the result of a page switch left unchecked: only a failed
\* register write ends the loop
init_step_switch_unchecked(tbl, i, p, n, flags) ==
    LET instr == tbl[i + 1]
        r == IF instr.op = "SWITCH_PAGE"
             THEN ili9806e_switch_page(instr.page, p, n + 1, flags)
             ELSE ili9806e_send_cmd_data(instr.cmd, instr.data, p, n + 1, flags)
    IN  IF r.ret # 0 /\ instr.op # "SWITCH_PAGE"
        THEN [ret |-> r.ret, trace |-> r.trace \o <<printk_seq(i, r.ret)>>,
              n |-> n + 1]
        ELSE [ret |-> 0, trace |-> r.trace, n |-> n + 1]

\* init_step with the check of ret left out: the loop goes on after a failure
init_step_no_check(tbl, i, p, n, flags) ==
    LET instr == tbl[i + 1]
        r == IF instr.op = "SWITCH_PAGE"
             THEN ili9806e_switch_page(instr.page, p, n + 1, flags)
             ELSE ili9806e_send_cmd_data(instr.cmd, instr.data, p, n + 1, flags)
    IN  [ret |-> 0, trace |-> r.trace, n |-> n + 1]

\* One iteration of the for loop of ili9806e_init_sequence, at zero-based
\* index i; n transactions were issued before it in this callback.
init_step(tbl, i, p, n, flags) ==
    LET instr == tbl[i + 1]
        r == IF instr.op = "SWITCH_PAGE"
             THEN ili9806e_switch_page(instr.page, p, n + 1, flags)
             ELSE ili9806e_send_cmd_data(instr.cmd, instr.data, p, n + 1, flags)
    IN  IF r.ret # 0
        THEN [ret |-> r.ret, trace |-> r.trace \o <<printk_seq(i, r.ret)>>,
              n |-> n + 1]
        ELSE [ret |-> 0, trace |-> r.trace, n |-> n + 1]

\* The iterations lo <= i < hi of the loop, in order, returning at the first
\* one that fails.  They are run as two halves, one after the other, which
\* keeps the evaluation shallow for the 112 entries of ili9806e_init.
RECURSIVE init_loop(_, _, _, _, _, _)
init_loop(tbl, lo, hi, p, n, flags) ==
    IF lo >= hi THEN [ret |-> 0, trace |-> <<>>, n |-> n]
    ELSE IF hi = lo + 1 THEN init_step(tbl, lo, p, n, flags)
    ELSE LET mid == (lo + hi) \div 2
             a == init_loop(tbl, lo, mid, p, n, flags)
         IN  IF a.ret # 0 THEN a
             ELSE LET b == init_loop(tbl, mid, hi, p, a.n, flags)
                  IN  [ret |-> b.ret, trace |-> a.trace \o b.trace, n |-> b.n]

\* ili9806e_init_sequence with the block under #if 0 compiled in: after
\* tear-on, a switch to page 0 and the read-back of the brightness, each
\* returning its error
ili9806e_init_sequence_readback(tbl, p, n, flags) ==
    LET l == init_loop(tbl, 0, Len(tbl), p, n, flags)
        t == ili9806e_send_cmd_data(MIPI_DCS_SET_TEAR_ON, 34, p, l.n + 1, flags)
        s == ili9806e_switch_page(0, p, l.n + 2, flags)
        r == mipi_dsi_dcs_read(MIPI_DCS_GET_DISPLAY_BRIGHTNESS, <<255, 0>>, p,
                               l.n + 3, flags)
    IN  IF l.ret # 0 THEN [ret |-> l.ret, trace |-> l.trace]
        ELSE IF t.ret # 0
        THEN [ret |-> t.ret,
              trace |-> l.trace \o t.trace \o <<printk_err("tear_on", t.ret)>>]
        ELSE IF s.ret # 0
        THEN [ret |-> s.ret, trace |-> l.trace \o t.trace \o s.trace]
        ELSE [ret |-> IF r.ret < 0 THEN r.ret ELSE 0,
              trace |-> l.trace \o t.trace \o s.trace \o <<r>>]

ili9806e_init_sequence(tbl, p, n, flags) ==
    LET l == init_loop(tbl, 0, Len(tbl), p, n, flags)
    IN  IF l.ret # 0 THEN [ret |-> l.ret, trace |-> l.trace]
        ELSE LET t == ili9806e_send_cmd_data(MIPI_DCS_SET_TEAR_ON, 34, p,
                                             l.n + 1, flags)
             IN  IF t.ret # 0
                 THEN [ret |-> t.ret,
                       trace |-> l.trace \o t.trace
                                 \o <<printk_err("tear_on", t.ret)>>]
                 ELSE [ret |-> 0, trace |-> l.trace \o t.trace]

----------------------------------------------------------------------------
(* Backlight operations *)

\* u16 <-> the two payload bytes of the DCS brightness commands
BrightnessPayload(b) == <<(b % 65536) % 256, (b % 65536) \div 256>>
BrightnessValue(data) == data[1] + 256 * data[2]
\* The u16 that mipi_dsi_dcs_get_display_brightness leaves in the caller's
\* variable: the bytes read, low byte first.  The variable is not
\* initialised, so after a read of one byte its high byte is `stale`,
\* whatever the stack held.
BrightnessRead(data, stale) ==
    IF Len(data) >= 2 THEN BrightnessValue(data) ELSE data[1] + 256 * stale

ClearLPM(flags) == flags \ {MIPI_DSI_MODE_LPM}

\* ili9806e_bl_update_status without the statement that clears the
\* low-power flag
ili9806e_bl_update_status_keeps_lpm(b, p, n, flags) ==
    LET w == mipi_dsi_dcs_write_buffer(
                 <<MIPI_DCS_SET_DISPLAY_BRIGHTNESS>> \o BrightnessPayload(b),
                 p, n, flags)
    IN  [ret |-> IF w.ret < 0 THEN w.ret ELSE 0,
         trace |-> <<w>>,
         flags |-> flags]

ili9806e_bl_update_status(b, p, n, flags) ==
    LET w == mipi_dsi_dcs_write_buffer(
                 <<MIPI_DCS_SET_DISPLAY_BRIGHTNESS>> \o BrightnessPayload(b),
                 p, n, ClearLPM(flags))
    IN  [ret |-> IF w.ret < 0 THEN w.ret ELSE 0,
         trace |-> <<w>>,
         flags |-> ClearLPM(flags)]

\* ili9806e_bl_get_brightness returning the 16-bit value unmasked
ili9806e_bl_get_brightness_no_mask(b, answer, stale, p, n, flags) ==
    LET r == mipi_dsi_dcs_read(MIPI_DCS_GET_DISPLAY_BRIGHTNESS, answer, p, n,
                               ClearLPM(flags))
        err == IF r.ret <= 0
               THEN (IF r.ret = 0 THEN ENODATA ELSE r.ret)
               ELSE 0
    IN  IF err < 0
        THEN [ret |-> err, trace |-> <<r>>, flags |-> ClearLPM(flags),
              brightness |-> b]
        ELSE [ret |-> BrightnessRead(r.data, stale), trace |-> <<r>>,
              flags |-> ClearLPM(flags),
              brightness |-> BrightnessRead(r.data, stale)]

ili9806e_bl_get_brightness(b, answer, stale, p, n, flags) ==
    LET r == mipi_dsi_dcs_read(MIPI_DCS_GET_DISPLAY_BRIGHTNESS, answer, p, n,
                               ClearLPM(flags))
        err == IF r.ret <= 0
               THEN (IF r.ret = 0 THEN ENODATA ELSE r.ret)
               ELSE 0
    IN  IF err < 0
        THEN [ret |-> err, trace |-> <<r>>, flags |-> ClearLPM(flags),
              brightness |-> b]
        ELSE [ret |-> BrightnessRead(r.data, stale) % 256, trace |-> <<r>>,
              flags |-> ClearLPM(flags),
              brightness |-> BrightnessRead(r.data, stale)]

\* backlight_enable / backlight_disable of the backlight class: mark the
\* device unblanked / blanked and call the registered update_status.
backlight_enable(b, p, n, flags) ==
    LET u == ili9806e_bl_update_status(b, p, n, flags)
    IN  [ret |-> u.ret, trace |-> <<[ev |-> "backlight_enable"]>> \o u.trace,
         flags |-> u.flags]

backlight_disable(b, p, n, flags) ==
    LET u == ili9806e_bl_update_status(b, p, n, flags)
    IN  [ret |-> u.ret, trace |-> <<[ev |-> "backlight_disable"]>> \o u.trace,
         flags |-> u.flags]

----------------------------------------------------------------------------
(* Lifecycle callbacks *)

gpio_request(gpio, ret) == [ev |-> "gpio_request", gpio |-> gpio, ret |-> ret]
gpio_direction_output(gpio, v) == [ev |-> "gpio_direction_output", gpio |-> gpio, value |-> v]
gpio_free(gpio) == [ev |-> "gpio_free", gpio |-> gpio]
gpiod_set_value(line, v) == [ev |-> "gpiod_set_value", line |-> line, value |-> v]
regulator_enable(ret) == [ev |-> "regulator_enable", ret |-> ret]
regulator_disable == [ev |-> "regulator_disable"]
\* msleep(ms) returns after at least ms milliseconds
msleep(ms, jitter) == [ev |-> "msleep", ms |-> ms, slept |-> ms + jitter]

\* ili9806e_prepare giving up when gpio_request fails
ili9806e_prepare_gpio_fatal(owner, regRet, j1, j2) ==
    LET rq == IF owner = "free" THEN 0 ELSE EBUSY
        head == <<gpio_direction_output(DSI_EN, 1),
                  gpiod_set_value("reset", 0),
                  regulator_enable(regRet)>>
    IN  IF rq # 0
        THEN [ret |-> rq,
              trace |-> <<gpio_request(DSI_EN, rq), printk_err("gpio_request", rq)>>]
        ELSE IF regRet # 0
        THEN [ret |-> regRet, trace |-> <<gpio_request(DSI_EN, rq)>> \o head]
        ELSE [ret |-> 0,
              trace |-> <<gpio_request(DSI_EN, rq)>> \o head
                        \o <<msleep(20, j1),
                             gpiod_set_value("reset", 1),
                             msleep(120, j2),
                             gpio_free(DSI_EN)>>]

\* ili9806e_prepare with the second wait of the other panel revision: 20 ms
\* instead of tRT
ili9806e_prepare_short_wait(owner, regRet, j1, j2) ==
    LET rq == IF owner = "free" THEN 0 ELSE EBUSY
        head == <<gpio_request(DSI_EN, rq)>>
                \o (IF rq # 0 THEN <<printk_err("gpio_request", rq)>> ELSE <<>>)
                \o <<gpio_direction_output(DSI_EN, 1),
                     gpiod_set_value("reset", 0),
                     regulator_enable(regRet)>>
    IN  IF regRet # 0
        THEN [ret |-> regRet, trace |-> head]
        ELSE [ret |-> 0,
              trace |-> head \o <<msleep(20, j1),
                                  gpiod_set_value("reset", 1),
                                  msleep(20, j2),
                                  gpio_free(DSI_EN)>>]

\* ili9806e_prepare with the result of regulator_enable ignored
ili9806e_prepare_rail_unchecked(owner, regRet, j1, j2) ==
    LET rq == IF owner = "free" THEN 0 ELSE EBUSY
        head == <<gpio_request(DSI_EN, rq)>>
                \o (IF rq # 0 THEN <<printk_err("gpio_request", rq)>> ELSE <<>>)
                \o <<gpio_direction_output(DSI_EN, 1),
                     gpiod_set_value("reset", 0),
                     regulator_enable(regRet)>>
    IN  [ret |-> 0,
         trace |-> head \o <<msleep(20, j1),
                             gpiod_set_value("reset", 1),
                             msleep(120, j2),
                             gpio_free(DSI_EN)>>]

ili9806e_prepare(owner, regRet, j1, j2) ==
    LET rq == IF owner = "free" THEN 0 ELSE EBUSY
        head == <<gpio_request(DSI_EN, rq)>>
                \o (IF rq # 0 THEN <<printk_err("gpio_request", rq)>> ELSE <<>>)
                \o <<gpio_direction_output(DSI_EN, 1),
                     gpiod_set_value("reset", 0),
                     regulator_enable(regRet)>>
    IN  IF regRet # 0
        THEN [ret |-> regRet, trace |-> head]
        ELSE [ret |-> 0,
              trace |-> head \o <<msleep(20, j1),
                                  gpiod_set_value("reset", 1),
                                  msleep(120, j2),
                                  gpio_free(DSI_EN)>>]

\* ili9806e_enable with the result of backlight_enable ignored
ili9806e_enable_backlight_ignored(b, p, flags) ==
    LET s == ili9806e_init_sequence(Table, p, 0, flags)
    IN  IF s.ret < 0
        THEN [ret |-> s.ret,
              trace |-> s.trace \o <<printk_err("enable", s.ret)>>,
              flags |-> flags]
        ELSE LET bl == backlight_enable(b, p, Len(Table) + 2, flags)
             IN  [ret |-> 0, trace |-> s.trace \o bl.trace, flags |-> bl.flags]

\* ili9806e_enable without the check of the sequencer's result
ili9806e_enable_no_check(b, p, flags) ==
    LET s == ili9806e_init_sequence(Table, p, 0, flags)
        bl == backlight_enable(b, p, Len(Writes(s.trace)) + 1, flags)
    IN  IF bl.ret # 0
        THEN [ret |-> bl.ret,
              trace |-> s.trace \o bl.trace \o <<printk_err("backlight", bl.ret)>>,
              flags |-> bl.flags]
        ELSE [ret |-> 0, trace |-> s.trace \o bl.trace, flags |-> bl.flags]

ili9806e_enable(b, p, flags) ==
    LET s == ili9806e_init_sequence(Table, p, 0, flags)
    IN  IF s.ret < 0
        THEN [ret |-> s.ret,
              trace |-> s.trace \o <<printk_err("enable", s.ret)>>,
              flags |-> flags]
        ELSE LET bl == backlight_enable(b, p, Len(Table) + 2, flags)
             IN  IF bl.ret # 0
                 THEN [ret |-> bl.ret,
                       trace |-> s.trace \o bl.trace
                                 \o <<printk_err("backlight", bl.ret)>>,
                       flags |-> bl.flags]
                 ELSE [ret |-> 0, trace |-> s.trace \o bl.trace,
                       flags |-> bl.flags]

\* mipi_dsi_dcs_set_display_off / mipi_dsi_dcs_enter_sleep_mode: a DCS write
\* of the bare command; 0 or a negative errno.
mipi_dsi_dcs_set_display_off(p, n, flags) ==
    LET w == mipi_dsi_dcs_write_buffer(<<MIPI_DCS_SET_DISPLAY_OFF>>, p, n, flags)
    IN  [ret |-> IF w.ret < 0 THEN w.ret ELSE 0, trace |-> <<w>>]

mipi_dsi_dcs_enter_sleep_mode(p, n, flags) ==
    LET w == mipi_dsi_dcs_write_buffer(<<MIPI_DCS_ENTER_SLEEP_MODE>>, p, n, flags)
    IN  [ret |-> IF w.ret < 0 THEN w.ret ELSE 0, trace |-> <<w>>]

\* ili9806e_disable with the two calls exchanged: display-off first
ili9806e_disable_off_first(b, p, flags) ==
    LET off == mipi_dsi_dcs_set_display_off(p, 1, flags)
        bl == backlight_disable(b, p, 2, flags)
    IN  [ret |-> off.ret, trace |-> off.trace \o bl.trace, flags |-> bl.flags]

ili9806e_disable(b, p, flags) ==
    LET bl == backlight_disable(b, p, 1, flags)
        off == mipi_dsi_dcs_set_display_off(p, 2, bl.flags)
    IN  [ret |-> off.ret, trace |-> bl.trace \o off.trace, flags |-> bl.flags]

\* ili9806e_unprepare with the rail switched off before the sleep command
ili9806e_unprepare_rail_first(p, flags) ==
    LET sl == mipi_dsi_dcs_enter_sleep_mode(p, 1, flags)
    IN  [ret |-> 0, trace |-> <<regulator_disable>> \o sl.trace]

ili9806e_unprepare(p, flags) ==
    LET sl == mipi_dsi_dcs_enter_sleep_mode(p, 1, flags)
    IN  [ret |-> 0, trace |-> sl.trace \o <<regulator_disable>>]

----------------------------------------------------------------------------
(* What a callback's calls leave behind in the hardware *)

RECURSIVE PowerAfter(_, _)
PowerAfter(pw, trace) ==
    IF trace = <<>> THEN pw
    ELSE LET e == Head(trace)
         IN  PowerAfter(
                 IF e.ev = "regulator_enable" /\ e.ret = 0 THEN pw + 1
                 ELSE IF e.ev = "regulator_disable" /\ pw > 0 THEN pw - 1
                 ELSE pw,
                 Tail(trace))

\* the event at the largest of the positions `hits` of the trace, or none
LastOf(trace, hits) ==
    IF hits = {} THEN [ev |-> "none"]
    ELSE trace[CHOOSE i \in hits : \A j \in hits : j <= i]

DsiEnAfter(owner, trace) ==
    LET e == LastOf(trace, {i \in 1..Len(trace) :
                               \/ trace[i].ev = "gpio_request" /\ trace[i].ret = 0
                               \/ trace[i].ev = "gpio_free"})
    IN  IF e.ev = "gpio_request" THEN "driver"
        ELSE IF e.ev = "gpio_free" THEN "free"
        ELSE owner

IsBrightnessWrite(e) ==
    /\ e.ev = "dsi_write"
    /\ Len(e.buf) = 3
    /\ e.buf[1] = MIPI_DCS_SET_DISPLAY_BRIGHTNESS

EchoAfter(ec, trace) ==
    LET e == LastOf(trace, {i \in 1..Len(trace) :
                               IsBrightnessWrite(trace[i]) /\ trace[i].ret >= 0})
    IN  IF e.ev = "none" THEN ec ELSE <<e.buf[2], e.buf[3]>>

IsPageSwitch(e) ==
    /\ e.ev = "dsi_write"
    /\ Len(e.buf) = 6
    /\ SubSeq(e.buf, 1, 5) = <<255, 255, 152, 6, 4>>

IsResetRelease(e) == e.ev = "gpiod_set_value" /\ e.line = "reset" /\ e.value = 1

\* a released reset puts the panel back on page 0
PageAfter(pg, trace) ==
    LET e == LastOf(trace, {i \in 1..Len(trace) :
                               \/ IsPageSwitch(trace[i]) /\ trace[i].ret >= 0
                               \/ IsResetRelease(trace[i])})
    IN  IF e.ev = "none" THEN pg
        ELSE IF e.ev = "dsi_write" THEN e.buf[6]
        ELSE 0

\* The lifecycle as the host follows it: a call moves the panel on when it
\* is the call of that state and returns 0; unprepare is also the way back
\* from Prepared after a failed enable.
NextPanelState(s, op, ret) ==
    IF ret # 0 THEN s
    ELSE IF s = "Unprepared" /\ op = "prepare" THEN "Prepared"
    ELSE IF s = "Prepared" /\ op = "enable" THEN "Enabled"
    ELSE IF s = "Enabled" /\ op = "disable" THEN "Disabled"
    ELSE IF s = "Disabled" /\ op = "unprepare" THEN "Unprepared"
    ELSE IF s = "Prepared" /\ op = "unprepare" THEN "Unprepared"
    ELSE s

----------------------------------------------------------------------------
(* Inputs *)

BrightnessInputs == {0, 4660, 65535}
\* what the panel may answer a brightness read with, besides an echo of the
\* last write: a value wider than a byte, a single byte, or nothing at all
WireSamples == {<<255, 1>>, <<255>>, <<>>}
\* what the high byte of the uninitialised u16 may hold
StaleBytes == {0, 1}
ReadAnswers(ec) == (IF ec = <<>> THEN {} ELSE {ec}) \cup WireSamples

NoCall == [op |-> "none", from |-> "Unprepared", ret |-> 0, trace |-> <<>>,
           arg |-> 0, attempt |-> 0, flags |-> {}]

Call(op, r, arg, attempt) ==
    [op |-> op, from |-> panelState, ret |-> r.ret, trace |-> r.trace,
     arg |-> arg, attempt |-> attempt, flags |-> mode_flags]

Effects(op, r) ==
    /\ panelState' = NextPanelState(panelState, op, r.ret)
    /\ power' = PowerAfter(power, r.trace)
    /\ dsi_en' = DsiEnAfter(dsi_en, r.trace)
    /\ echo' = EchoAfter(echo, r.trace)
    /\ page' = PageAfter(page, r.trace)

----------------------------------------------------------------------------
(* State machine *)

Init ==
    /\ panelState = "Unprepared"
    /\ power = 0
    /\ dsi_en \in {"free", "other"}
    /\ mode_flags = ProbeFlags
    /\ brightness = MAX_BRIGHTNESS
    /\ echo = <<>>
    /\ page = 0
    /\ last = NoCall

Prepare ==
    /\ power < MaxPower
    /\ \E regRet \in {0} \cup RegulatorErrors, j1, j2 \in 0..MaxJitter :
         LET r == ili9806e_prepare(dsi_en, regRet, j1, j2)
         IN  /\ Effects("prepare", r)
             /\ last' = Call("prepare", r, 0, 0)
    /\ UNCHANGED <<mode_flags, brightness>>

Enable ==
    /\ \E p \in SinglePatterns(Len(Table) + 2) :
         LET r == ili9806e_enable(brightness, p, mode_flags)
             failedBefore == IF last.op = "enable" /\ last.ret # 0
                             THEN IF last.attempt < MaxAttempts
                                  THEN last.attempt + 1 ELSE MaxAttempts
                             ELSE 0
         IN  /\ Effects("enable", r)
             /\ mode_flags' = r.flags
             /\ last' = Call("enable", r, 0, failedBefore)
    /\ UNCHANGED brightness

Disable ==
    /\ \E p \in SinglePatterns(2) :
         LET r == ili9806e_disable(brightness, p, mode_flags)
         IN  /\ Effects("disable", r)
             /\ mode_flags' = r.flags
             /\ last' = Call("disable", r, 0, 0)
    /\ UNCHANGED brightness

Unprepare ==
    /\ \E p \in SinglePatterns(1) :
         LET r == ili9806e_unprepare(p, mode_flags)
         IN  /\ Effects("unprepare", r)
             /\ last' = Call("unprepare", r, 0, 0)
    /\ UNCHANGED <<mode_flags, brightness>>

GetBrightness ==
    /\ \E p \in SinglePatterns(1), answer \in ReadAnswers(echo),
          stale \in StaleBytes :
         \* the stale byte shows only after a read of a single byte
         (Len(answer) = 1 \/ stale = 0) /\
         LET r == ili9806e_bl_get_brightness(brightness, answer, stale, p, 1,
                                             mode_flags)
         IN  /\ Effects("get_brightness", r)
             /\ mode_flags' = r.flags
             /\ brightness' = r.brightness
             /\ last' = Call("get_brightness", r, 0, 0)

\* The backlight class stores the requested value in props.brightness and
\* calls update_status.
SetBrightness ==
    /\ \E v \in BrightnessInputs, p \in SinglePatterns(1) :
         LET r == ili9806e_bl_update_status(v, p, 1, mode_flags)
         IN  /\ Effects("set_brightness", r)
             /\ mode_flags' = r.flags
             /\ brightness' = v
             /\ last' = Call("set_brightness", r, v, 0)

\* The host calls the lifecycle callbacks in their cyclic order, retries a
\* failed call or falls back to unprepare after a failed enable; the
\* backlight class calls the brightness operations at any time.
Next ==
    \/ panelState = "Unprepared" /\ Prepare
    \/ panelState = "Prepared" /\ Enable
    \/ panelState = "Enabled" /\ Disable
    \/ panelState = "Disabled" /\ Unprepare
    \/ panelState = "Prepared" /\ last.op = "enable" /\ last.ret # 0 /\ Unprepare
    \/ GetBrightness
    \/ SetBrightness

Spec == Init /\ [][Next]_vars

\* The brightness operations alone, as the backlight class calls them, for
\* every value of dsi->mode_flags they may be entered with: the flags of
\* probe with or without the low-power flag, which the operations clear and
\* no statement of the driver sets.
BlInit ==
    /\ panelState = "Unprepared"
    /\ power = 0
    /\ dsi_en = "free"
    /\ mode_flags \in SUBSET (ProbeFlags \cup {MIPI_DSI_MODE_LPM})
    /\ brightness = MAX_BRIGHTNESS
    /\ echo = <<>>
    /\ page = 0
    /\ last = NoCall

BlNext ==
    \/ GetBrightness
    \/ SetBrightness

SpecBl == BlInit /\ [][BlNext]_vars

\* The callbacks themselves check nothing: drm_panel_funcs lets a host call
\* any of them in any state.
AnyNext ==
    \/ Prepare
    \/ Enable
    \/ Disable
    \/ Unprepare

SpecAny == Init /\ [][AnyNext]_vars

---------------------------------------------------------------------------------------------------------------------------------------------------
(* The sequencer alone: one run over the whole of ili9806e_init, under     *)
(* every transport pattern.                                                *)

RunInitSequence ==
    /\ last = NoCall
    /\ \E p \in Patterns(Len(ili9806e_init) + 1) :
         LET r == ili9806e_init_sequence(ili9806e_init, p, 0, mode_flags)
         IN  /\ page' = PageAfter(page, r.trace)
             /\ last' = Call("init_sequence", r, p, 0)
    /\ UNCHANGED <<panelState, power, dsi_en, mode_flags, brightness, echo>>

SeqNext == RunInitSequence

SpecSeq == Init /\ [][SeqNext]_vars

----------------------------------------------------------------------------
(* Vocabulary of the properties *)

\* the bytes a table entry goes out as
PayloadOf(instr) ==
    IF instr.op = "SWITCH_PAGE"
    THEN <<255, 255, 152, 6, 4, instr.page>>
    ELSE <<instr.cmd, instr.data>>

TearOnPayload == <<MIPI_DCS_SET_TEAR_ON, 34>>

\* the writes w are entries 0, 1, ... of tbl in order, one write each,
\* followed at most by the tear-on command
InTableOrder(w, tbl) ==
    /\ Len(w) <= Len(tbl) + 1
    /\ \A k \in 1..Len(w) :
         w[k].buf = IF k <= Len(tbl) THEN PayloadOf(tbl[k]) ELSE TearOnPayload

----------------------------------------------------------------------------
(* C1 *)

\* The part of C1 about the writes: under every transport pattern the
\* sequencer writes the entries of ili9806e_init in table order from index
\* 0, one write per entry, then tear-on; the only write that fails is the
\* first one the pattern fails, it is the last write of the run, and its
\* error is what the run returns.
SeqOrderAndHalt ==
    last.op = "init_sequence" =>
        LET w == Writes(last.trace)
            p == last.arg
            n == Len(ili9806e_init)
        IN  /\ InTableOrder(w, ili9806e_init)
            /\ Len(w) = IF p.first = 0 THEN n + 1 ELSE p.first
            /\ \A k \in 1..Len(w) : (w[k].ret < 0) <=> (k = p.first)
            /\ last.ret = IF p.first = 0 THEN 0 ELSE p.err

\* the value returned by a failed run names the failing index: no run that
\* fails at another index returns the same value
SeqReturnNamesIndex ==
    (last.op = "init_sequence" /\ last.ret # 0) =>
        \A k \in 1..Len(ili9806e_init) :
            LET other == ili9806e_init_sequence(
                             ili9806e_init,
                             [first |-> k, rest |-> FALSE, err |-> last.arg.err],
                             0, mode_flags)
            IN  other.ret = last.ret => k = Len(Writes(last.trace))

\* the log line of a failed table write names the zero-based index of the
\* write and its error, and no other index is logged
SeqLogNamesIndex ==
    (last.op = "init_sequence" /\ last.arg.first \in 1..Len(ili9806e_init)) =>
        {e \in Range(last.trace) : e.ev = "printk" /\ e.where = "seq"}
            = {printk_seq(last.arg.first - 1, last.arg.err)}

----------------------------------------------------------------------------
(* C2 *)

LifecycleCalls == {"prepare", "enable", "disable", "unprepare"}

ValidPair(s, op) ==
    <<s, op>> \in {<<"Unprepared", "prepare">>, <<"Prepared", "enable">>,
                   <<"Enabled", "disable">>, <<"Disabled", "unprepare">>}

\* everything a callback did besides logging
HardwareActions(trace) == {e \in Range(trace) : e.ev # "printk"}

\* C2: a lifecycle call made in a state that is not the state of that call
\* fails with an error and performs no hardware action (no transport write,
\* no power-rail, reset-line, auxiliary-GPIO or backlight change).
C2_InvalidCallRejected ==
    (last.op \in LifecycleCalls /\ ~ValidPair(last.from, last.op)) =>
        /\ last.ret < 0
        /\ HardwareActions(last.trace) = {}

----------------------------------------------------------------------------
(* C3 *)

FailedWrites(trace) == {e \in Range(trace) : e.ev = "dsi_write" /\ e.ret < 0}

\* the number of transport writes of a full enable: the table, tear-on and
\* the brightness write of backlight_enable
EnableWrites == Len(Table) + 2

\* C3: an enable called from Prepared in which a transport write fails
\* returns that error and leaves the panel Prepared; every enable called from
\* Prepared, a retry after failed enables included, writes the table from
\* index 0 in order, and one in which no write fails writes all of it and
\* ends Enabled.
C3_FailedEnableStaysPreparedRetryReplays ==
    (last.op = "enable" /\ last.from = "Prepared") =>
        LET w == Writes(last.trace)
        IN  /\ InTableOrder(SubSeq(w, 1, IF Len(w) <= Len(Table) + 1 THEN Len(w)
                                         ELSE Len(Table) + 1), Table)
            /\ Len(w) <= EnableWrites
            /\ FailedWrites(last.trace) # {} =>
                   /\ last.ret < 0
                   /\ {last.ret} = {e.ret : e \in FailedWrites(last.trace)}
                   /\ panelState = "Prepared"
            /\ FailedWrites(last.trace) = {} =>
                   /\ Len(w) = EnableWrites
                   /\ last.ret = 0
                   /\ panelState = "Enabled"

\* an enable that succeeds as the retry of a failed enable
C3_Witness ==
    /\ last.op = "enable"
    /\ last.from = "Prepared"
    /\ last.attempt >= 1
    /\ last.ret = 0
    /\ panelState = "Enabled"
    /\ Len(Writes(last.trace)) = EnableWrites

----------------------------------------------------------------------------
(* C4 *)

\* the rail, wait and reset-release calls of a trace, in order
PowerUpSteps(trace) ==
    SelectSeq(trace, LAMBDA e : \/ e.ev \in {"regulator_enable", "msleep"}
                                \/ IsResetRelease(e))

\* C4: a successful prepare does, of rail, waits and reset release, exactly:
\* rail enable, a wait of at least 20 ms, reset release, a wait of at least
\* 120 ms; and no prepare releases the reset line unless the rail was
\* enabled and at least 20 ms waited before.
C4_PrepareOrderAndWaits ==
    last.op = "prepare" =>
        LET t == PowerUpSteps(last.trace)
        IN  /\ last.ret = 0 =>
                   /\ Len(t) = 4
                   /\ t[1].ev = "regulator_enable" /\ t[1].ret = 0
                   /\ t[2].ev = "msleep" /\ t[2].slept >= 20
                   /\ IsResetRelease(t[3])
                   /\ t[4].ev = "msleep" /\ t[4].slept >= 120
            /\ \A i \in 1..Len(t) :
                   IsResetRelease(t[i]) =>
                       /\ i = 3
                       /\ t[1].ev = "regulator_enable" /\ t[1].ret = 0
                       /\ t[2].ev = "msleep" /\ t[2].slept >= 20

C4_Witness ==
    /\ last.op = "prepare"
    /\ last.ret = 0
    /\ \E i \in 1..Len(last.trace) : IsResetRelease(last.trace[i])
    /\ msleep(120, MaxJitter) \in Range(last.trace)

----------------------------------------------------------------------------
(* C5 *)

IsEnterSleep(e) == e.ev = "dsi_write" /\ e.buf = <<MIPI_DCS_ENTER_SLEEP_MODE>>

\* C5: an unprepare called from Disabled issues the enter-sleep command and
\* then disables the rail; in no unprepare is the rail disabled without the
\* enter-sleep command issued before it in the same call.
C5_SleepBeforeRailOff ==
    last.op = "unprepare" =>
        LET t == last.trace
            offs == {i \in 1..Len(t) : t[i].ev = "regulator_disable"}
        IN  /\ last.from = "Disabled" => offs # {}
            /\ \A i \in offs : \E j \in 1..(i - 1) : IsEnterSleep(t[j])

\* an unprepare from Disabled, after a brightness read changed the stored
\* brightness earlier in the history
C5_Witness ==
    /\ last.op = "unprepare"
    /\ last.from = "Disabled"
    /\ brightness # MAX_BRIGHTNESS
    /\ regulator_disable \in Range(last.trace)

----------------------------------------------------------------------------
(* C6 *)

\* the writes of the sequencer among the writes w of an enable
InitWrites(w) ==
    SubSeq(w, 1, IF Len(w) <= Len(Table) + 1 THEN Len(w) ELSE Len(Table) + 1)

\* C6: every initialisation write of enable (table entries and tear-on) is
\* sent with the link-mode flag in low-power mode.
C6_InitWritesInLowPowerMode ==
    last.op = "enable" =>
        \A e \in Range(InitWrites(Writes(last.trace))) : e.lpm

----------------------------------------------------------------------------
(* C7 *)

\* C7: the driver does not hold DSI_EN between two calls: a prepare that
\* acquired it has released it on return, whichever way it returns.
C7_AuxGpioReleasedOnEveryExit ==
    /\ dsi_en # "driver"
    /\ last.op = "prepare" =>
           \A i \in 1..Len(last.trace) :
               (last.trace[i].ev = "gpio_request" /\ last.trace[i].ret = 0) =>
                   \E j \in (i + 1)..Len(last.trace) :
                       last.trace[j].ev = "gpio_free"

----------------------------------------------------------------------------
(* C8 *)

IsTransaction(e) == e.ev \in {"dsi_write", "dsi_read"}

TransportCalls == {"enable", "disable", "unprepare", "get_brightness",
                   "set_brightness"}

\* the transactions a callback is answerable for in C8: all it issues, the
\* brightness write that backlight_disable makes within disable left aside
\* (disable does not look at the result of backlight_disable either)
OwnTransaction(c, e) ==
    /\ IsTransaction(e)
    /\ ~(c.op = "disable" /\ IsBrightnessWrite(e))

\* C8: an enable, disable, unprepare, get_brightness or set_brightness in
\* which a transport transaction fails returns that error, and does not
\* issue the failed transaction again in the same call; so for the
\* enter-sleep command of unprepare and the display-off command of disable.
C8_TransportErrorReturnedNoRetry ==
    last.op \in TransportCalls =>
        \A i \in 1..Len(last.trace) :
            (OwnTransaction(last, last.trace[i]) /\ last.trace[i].ret < 0) =>
                /\ last.ret = last.trace[i].ret
                /\ \A j \in (i + 1)..Len(last.trace) :
                       IsTransaction(last.trace[j]) =>
                           \/ last.trace[j].ev # last.trace[i].ev
                           \/ /\ last.trace[j].ev = "dsi_write"
                              /\ last.trace[j].buf # last.trace[i].buf

----------------------------------------------------------------------------
(* C9 *)

ReadOf(c) == CHOOSE e \in Range(c.trace) : e.ev = "dsi_read"

\* C9: a get_brightness that directly follows a successful set_brightness(v)
\* and is answered with the value last written returns v mod 256; every
\* successful get_brightness, whatever the transport answers, returns a
\* value in 0..255.
C9_SetThenGetReturnsLowByte ==
    [][ /\ ( /\ last.op = "set_brightness" /\ last.ret = 0
             /\ last'.op = "get_brightness" /\ last'.ret >= 0
             /\ ReadOf(last').data = echo )
           => last'.ret = last.arg % 256
        /\ (last'.op = "get_brightness" /\ last'.ret >= 0)
           => last'.ret \in 0..255
      ]_vars

\* the read-back of set_brightness(4660): 4660 = 18 * 256 + 52
C9_Witness ==
    /\ last.op = "get_brightness"
    /\ ReadOf(last).data = <<52, 18>>
    /\ last.ret = 52
    /\ brightness = 4660

----------------------------------------------------------------------------
(* C10 *)

AcquireFailed(trace) ==
    \E e \in Range(trace) : e.ev = "gpio_request" /\ e.ret # 0

\* C10: a prepare whose gpio_request fails still enables the rail, and when
\* the rail enables it does the same waits and reset release in the same
\* order as otherwise and returns 0; it fails only with the rail's error.
C10_AcquireFailureNotFatal ==
    (last.op = "prepare" /\ AcquireFailed(last.trace)) =>
        LET t == PowerUpSteps(last.trace)
        IN  /\ Len(t) >= 1
            /\ t[1].ev = "regulator_enable"
            /\ last.ret = t[1].ret
            /\ t[1].ret = 0 =>
                   /\ Len(t) = 4
                   /\ t[2].ev = "msleep" /\ t[2].slept >= 20
                   /\ IsResetRelease(t[3])
                   /\ t[4].ev = "msleep" /\ t[4].slept >= 120

C10_Witness ==
    /\ last.op = "prepare"
    /\ AcquireFailed(last.trace)
    /\ last.ret = 0
    /\ panelState = "Prepared"

----------------------------------------------------------------------------
(* C11 *)

IsTearOn(e) == e.ev = "dsi_write" /\ e.buf = TearOnPayload

\* every entry of tbl went out in the writes w and was accepted
TableWritten(w, tbl) ==
    /\ Len(w) >= Len(tbl)
    /\ \A k \in 1..Len(tbl) : w[k].ret >= 0

\* C11: a run of the sequencer issues the tear-on command once, as the write
\* that follows the last table entry, when every table entry was written
\* successfully, and not at all otherwise; it issues no transport read, and
\* it fails only with the error of a write that failed.
C11_TearOnOnceAfterTableNoRead ==
    last.op = "init_sequence" =>
        LET w == Writes(last.trace)
            n == Len(ili9806e_init)
            tears == {k \in 1..Len(w) : IsTearOn(w[k])}
        IN  /\ tears = IF TableWritten(w, ili9806e_init) THEN {n + 1} ELSE {}
            /\ \A e \in Range(last.trace) : e.ev # "dsi_read"
            /\ last.ret # 0 => \E e \in FailedWrites(last.trace) : e.ret = last.ret

\* a run that wrote the whole table and then tear-on, and succeeded
C11_Witness ==
    /\ last.op = "init_sequence"
    /\ last.ret = 0
    /\ Len(Writes(last.trace)) = Len(ili9806e_init) + 1
    /\ IsTearOn(Writes(last.trace)[Len(ili9806e_init) + 1])

----------------------------------------------------------------------------
(* C12 *)

IsDisplayOff(e) == e.ev = "dsi_write" /\ e.buf = <<MIPI_DCS_SET_DISPLAY_OFF>>

IsRailOrResetAction(e) ==
    e.ev \in {"regulator_enable", "regulator_disable", "gpiod_set_value"}

\* C12: a disable called from Enabled calls backlight_disable and then sends
\* the display-off command; in no disable is display-off sent before
\* backlight_disable was called, and no disable touches the power rail or
\* the reset line.
C12_BacklightOffThenDisplayOff ==
    last.op = "disable" =>
        LET t == last.trace
            bl == {i \in 1..Len(t) : t[i].ev = "backlight_disable"}
            offs == {i \in 1..Len(t) : IsDisplayOff(t[i])}
        IN  /\ last.from = "Enabled" => (bl # {} /\ offs # {})
            /\ \A i \in offs : \E j \in bl : j < i
            /\ \A e \in Range(t) : ~IsRailOrResetAction(e)

\* a disable from Enabled whose display-off was accepted
C12_Witness ==
    /\ last.op = "disable"
    /\ last.from = "Enabled"
    /\ last.ret = 0
    /\ panelState = "Disabled"
    /\ \E e \in Range(last.trace) : IsDisplayOff(e) /\ e.ret >= 0

----------------------------------------------------------------------------
(* C13 *)

\* the page named by the nearest SWITCH_PAGE entry of tbl before entry k
\* (entries counted from 1), or -1 when no entry before k is one
TablePageBefore(tbl, k) ==
    LET sw == {j \in 1..(k - 1) : j <= Len(tbl) /\ tbl[j].op = "SWITCH_PAGE"}
    IN  IF sw = {} THEN -1
        ELSE tbl[CHOOSE j \in sw : \A i \in sw : i <= j].page

\* C13: in a run of the sequencer over ili9806e_init every register write
\* that goes out has a page switch before it in the run, the nearest of
\* them was accepted and selected the page that the nearest SWITCH_PAGE
\* entry before the write's table entry names; and no write goes out after
\* a page switch that failed.
C13_RegisterWritesOnTheirPage ==
    last.op = "init_sequence" =>
        LET w == Writes(last.trace)
        IN  /\ \A k \in 1..Len(w) :
                 ~IsPageSwitch(w[k]) =>
                     LET e == LastOf(w, {j \in 1..(k - 1) : IsPageSwitch(w[j])})
                     IN  /\ e.ev = "dsi_write"
                         /\ e.ret >= 0
                         /\ e.buf[6] = TablePageBefore(ili9806e_init, k)
            /\ \A j \in 1..Len(w) :
                 (IsPageSwitch(w[j]) /\ w[j].ret < 0) => Len(w) = j

\* a run stopped by the failure of the switch to page 6 (entry 51), after
\* the register writes of page 1
C13_Witness ==
    /\ last.op = "init_sequence"
    /\ last.ret < 0
    /\ Len(Writes(last.trace)) = 52
    /\ IsPageSwitch(Writes(last.trace)[52])
    /\ Writes(last.trace)[52].buf[6] = 6
    /\ page = 1

----------------------------------------------------------------------------
(* C14 *)

IsBacklightAction(e) ==
    e.ev \in {"backlight_enable", "backlight_disable"} \/ IsBrightnessWrite(e)

\* C14: in every enable, backlight_enable is called only after all of the
\* table and tear-on went out and were accepted; an enable in which a write
\* of the sequencer fails returns that error and does nothing to the
\* backlight; an enable that returns 0 wrote the table, tear-on and the
\* brightness of backlight_enable, all accepted.
C14_BacklightOnlyAfterFullInit ==
    last.op = "enable" =>
        LET t == last.trace
            w == Writes(t)
            seqw == InitWrites(w)
            bl == {i \in 1..Len(t) : t[i].ev = "backlight_enable"}
        IN  /\ \A i \in bl :
                 LET before == Writes(SubSeq(t, 1, i - 1))
                 IN  /\ Len(before) = Len(Table) + 1
                     /\ InTableOrder(before, Table)
                     /\ \A k \in 1..Len(before) : before[k].ret >= 0
            /\ \A k \in 1..Len(seqw) :
                 seqw[k].ret < 0 =>
                     /\ last.ret = seqw[k].ret
                     /\ \A e \in Range(t) : ~IsBacklightAction(e)
            /\ last.ret = 0 =>
                 /\ Len(w) = EnableWrites
                 /\ \A k \in 1..Len(w) : w[k].ret >= 0
                 /\ bl # {}

\* an enable that wrote the whole table and failed at tear-on
C14_Witness ==
    /\ last.op = "enable"
    /\ last.ret < 0
    /\ Len(Writes(last.trace)) = Len(Table) + 1
    /\ IsTearOn(Writes(last.trace)[Len(Table) + 1])
    /\ \A e \in Range(last.trace) : ~IsBacklightAction(e)

----------------------------------------------------------------------------
(* C15 *)

BrightnessCalls == {"get_brightness", "set_brightness"}

\* C15: a get_brightness or set_brightness, whether its transaction is
\* accepted or fails, returns with the low-power flag clear and every other
\* mode flag as it was at the call, and its transaction went out with the
\* low-power flag clear; a get_brightness that fails leaves the stored
\* brightness as it was.
C15_BrightnessOpsLeaveHighSpeed ==
    [][ last'.op \in BrightnessCalls =>
            /\ MIPI_DSI_MODE_LPM \notin mode_flags'
            /\ mode_flags' \ {MIPI_DSI_MODE_LPM} = mode_flags \ {MIPI_DSI_MODE_LPM}
            /\ last'.flags = mode_flags
            /\ \A e \in Range(last'.trace) : IsTransaction(e) => ~e.lpm
            /\ (last'.op = "get_brightness" /\ last'.ret < 0)
                   => brightness' = brightness
      ]_vars

\* a get_brightness entered with the low-power flag set, whose read failed
C15_Witness ==
    /\ last.op = "get_brightness"
    /\ last.ret < 0
    /\ MIPI_DSI_MODE_LPM \in last.flags
    /\ mode_flags = ProbeFlags
    /\ brightness = MAX_BRIGHTNESS

----------------------------------------------------------------------------
(* C16 *)

RailEnables(trace) ==
    {i \in 1..Len(trace) : trace[i].ev = "regulator_enable" /\ trace[i].ret = 0}
RailDisables(trace) ==
    {i \in 1..Len(trace) : trace[i].ev = "regulator_disable"}

\* C16: with the lifecycle calls in cyclic order the rail's enable count is
\* 0 or 1, and is 1 exactly from a successful prepare to the next
\* unprepare; every call changes it by its successful enables less its
\* disables, so that no disable is lost on a rail already off; a prepare
\* whose regulator_enable fails leaves the count at 0 and does not release
\* the reset line.
C16_RailBalanced ==
    /\ [](power \in {0, 1})
    /\ [](power = 1 <=> panelState # "Unprepared")
    /\ []((last.op = "prepare" /\ last.ret # 0) =>
              /\ power = 0
              /\ \A e \in Range(last.trace) : ~IsResetRelease(e))
    /\ [][ power' = power + Cardinality(RailEnables(last'.trace))
                          - Cardinality(RailDisables(last'.trace))
         ]_vars

\* the rail is off again after the unprepare that followed a failed enable
C16_Witness ==
    /\ last.op = "unprepare"
    /\ last.from = "Prepared"
    /\ regulator_disable \in Range(last.trace)
    /\ power = 0
    /\ panelState = "Unprepared"

----------------------------------------------------------------------------
(* C17 *)

\* C17: a prepare calls gpio_free(DSI_EN) only after a gpio_request of the
\* same call succeeded; a prepare whose gpio_request failed leaves the line
\* with the owner that held it.
C17_ReleaseOnlyIfAcquired ==
    last.op = "prepare" =>
        /\ \A i \in 1..Len(last.trace) :
               last.trace[i].ev = "gpio_free" =>
                   \E j \in 1..(i - 1) :
                       /\ last.trace[j].ev = "gpio_request"
                       /\ last.trace[j].ret = 0
        /\ AcquireFailed(last.trace) => dsi_en = "other"

----------------------------------------------------------------------------
(* C18 *)

\* the standard DCS commands the lifecycle callbacks send
IsStandardDcs(e) == IsTearOn(e) \/ IsDisplayOff(e) \/ IsEnterSleep(e)

\* C18: with the lifecycle calls in cyclic order, the fallback to unprepare
\* after a failed enable included, every tear-on, display-off and
\* enter-sleep command is sent while page 0 is selected: the last page
\* switch accepted since the reset release selected page 0, or there was
\* none.
C18_StandardDcsOnPageZero ==
    [][ \A i \in 1..Len(last'.trace) :
            IsStandardDcs(last'.trace[i]) =>
                PageAfter(page, SubSeq(last'.trace, 1, i - 1)) = 0
      ]_vars

----------------------------------------------------------------------------
(* C19 *)

\* C19: with the lifecycle calls in cyclic order and the brightness
\* operations called at any time, every transport write or read goes out
\* while the rail is enabled: after a successful regulator_enable and
\* before the regulator_disable that follows it.
C19_TransportOnlyWhilePowered ==
    [][ \A i \in 1..Len(last'.trace) :
            IsTransaction(last'.trace[i]) =>
                PowerAfter(power, SubSeq(last'.trace, 1, i - 1)) >= 1
      ]_vars

----------------------------------------------------------------------------
(* C20 *)

\* C20: whatever the transport answers a read with, after a get_brightness
\* the stored brightness is in 0..max_brightness.
C20_StoredBrightnessInRange ==
    last.op = "get_brightness" => brightness \in 0..MAX_BRIGHTNESS

====
